---- MODULE Spec2Model ----
(***************************************************************************)
(* A model of the two decision engines of the crawler:                     *)
(*   - scraper/video_scraper.rs: should_update_video (the freshness        *)
(*     policy) and VideoScraper::scrape (the item ingestion pipeline);     *)
(*   - crawler/channel_discovery_crawler.rs: ChannelDiscoveryCrawler::crawl *)
(*     (the discovery loop), should_crawl and is_channel_newly_discovered.  *)
(* Times are Unix timestamps in seconds, as in the source.                 *)
(***************************************************************************)
EXTENDS Integers, Sequences, FiniteSets, TLC

VARIABLES
    now,                        \* the wall clock, Utc::now().timestamp()
    \* ---- freshness policy, evaluated on its own
    p_pc, p_entry, p_lookup, p_published, p_now_published, p_now_updated, p_result,
    \* ---- item ingestion pipeline (one channel)
    videos,                     \* the stored TrackedItem records, by _id
    channel_stats,              \* TrackedChannel.videoCount / lastUploadTimestamp
    privacy,                    \* the authoritative privacyStatus of each item
    feed,                       \* the channel's feed, a sequence of entries
    s_pc, s_idx, updated_lookup, max_last_upload_timestamp, s_result,
    s_pass, s_start, s_fetched, s_upserted, s_nonpublic, s_prev, s_changed, s_ticks,
    \* ---- discovery loop
    last_discovery_crawl,       \* CrawlProgress.lastDiscoveryCrawlTimestamp
    tracked,                    \* the ids channel_repo.exists finds
    queue, receiver_open,       \* the command channel and its receiving end
    c_pc, channel_ids, c_ci, subscriptions, c_si, c_cmd, c_error,
    c_gate, c_pass, c_write, c_eval, c_subfail, c_visited, c_sources,
    c_dispatched, c_iter, c_ticks

policyVars == <<p_pc, p_entry, p_lookup, p_published, p_now_published,
                p_now_updated, p_result>>
scrapeVars == <<videos, channel_stats, privacy, feed, s_pc, s_idx, updated_lookup,
                max_last_upload_timestamp, s_result, s_pass, s_start, s_fetched,
                s_upserted, s_nonpublic, s_prev, s_changed, s_ticks>>
crawlVars == <<last_discovery_crawl, tracked, queue, receiver_open, c_pc, channel_ids,
               c_ci, subscriptions, c_si, c_cmd, c_error, c_gate, c_pass, c_write,
               c_eval, c_subfail, c_visited, c_sources, c_dispatched, c_iter, c_ticks>>
vars == <<now, policyVars, scrapeVars, crawlVars>>

----------------------------------------------------------------------------
(* Constants of the source.                                                *)

ONE_HOUR_IN_SECONDS == 3600
ONE_DAY_IN_SECONDS == 86400
ONE_WEEK_IN_SECONDS == 604800

(* The moment the model starts at: late enough for an item to be older    *)
(* than every age tier.                                                    *)
Epoch == 40 * ONE_WEEK_IN_SECONDS

Abs(x) == IF x < 0 THEN -x ELSE x

Max(a, b) == IF a > b THEN a ELSE b

NoLookup == <<>>

----------------------------------------------------------------------------
(* The freshness policy.                                                   *)

(* should_update_video with the tier comparisons strict.                   *)
should_update_video_strict(lookup, video_id, published_at, now_published, now_updated) ==
    IF video_id \notin DOMAIN lookup
    THEN TRUE
    ELSE LET t0 == ONE_HOUR_IN_SECONDS * 3
             published_since_seconds == Abs(now_published - published_at)
             t1 == IF published_since_seconds > ONE_WEEK_IN_SECONDS
                   THEN ONE_DAY_IN_SECONDS ELSE t0
             t2 == IF published_since_seconds > 4 * ONE_WEEK_IN_SECONDS
                   THEN ONE_WEEK_IN_SECONDS ELSE t1
             t3 == IF published_since_seconds > 6 * 4 * ONE_WEEK_IN_SECONDS
                   THEN 4 * ONE_WEEK_IN_SECONDS ELSE t2
             updated_time_diff == Abs(now_updated - lookup[video_id])
         IN  updated_time_diff >= t3

(* should_update_video with the item's age signed: the absolute value is   *)
(* not taken.                                                              *)
should_update_video_signed(lookup, video_id, published_at, now_published, now_updated) ==
    IF video_id \notin DOMAIN lookup
    THEN TRUE
    ELSE LET t0 == ONE_HOUR_IN_SECONDS * 3
             published_since_seconds == now_published - published_at
             t1 == IF published_since_seconds >= ONE_WEEK_IN_SECONDS
                   THEN ONE_DAY_IN_SECONDS ELSE t0
             t2 == IF published_since_seconds >= 4 * ONE_WEEK_IN_SECONDS
                   THEN ONE_WEEK_IN_SECONDS ELSE t1
             t3 == IF published_since_seconds >= 6 * 4 * ONE_WEEK_IN_SECONDS
                   THEN 4 * ONE_WEEK_IN_SECONDS ELSE t2
             updated_time_diff == Abs(now_updated - lookup[video_id])
         IN  updated_time_diff >= t3

(* should_update_video: now_published and now_updated are the two readings *)
(* of the clock, the first for the item's age and the second for the time  *)
(* since its last refresh. Each `if` overrides the threshold of the one    *)
(* before it.                                                              *)
should_update_video(lookup, video_id, published_at, now_published, now_updated) ==
    IF video_id \notin DOMAIN lookup
    THEN TRUE
    ELSE LET t0 == ONE_HOUR_IN_SECONDS * 3
             published_since_seconds == Abs(now_published - published_at)
             t1 == IF published_since_seconds >= ONE_WEEK_IN_SECONDS
                   THEN ONE_DAY_IN_SECONDS ELSE t0
             t2 == IF published_since_seconds >= 4 * ONE_WEEK_IN_SECONDS
                   THEN ONE_WEEK_IN_SECONDS ELSE t1
             t3 == IF published_since_seconds >= 6 * 4 * ONE_WEEK_IN_SECONDS
                   THEN 4 * ONE_WEEK_IN_SECONDS ELSE t2
             updated_time_diff == Abs(now_updated - lookup[video_id])
         IN  updated_time_diff >= t3

(* The ages and gaps the policy is evaluated on: every tier boundary, the  *)
(* second before it and the second after it.                               *)
Around(t) == {t - 1, t, t + 1}

PolicyAges ==
    {0, ONE_HOUR_IN_SECONDS} \cup Around(ONE_WEEK_IN_SECONDS)
        \cup Around(4 * ONE_WEEK_IN_SECONDS) \cup Around(24 * ONE_WEEK_IN_SECONDS)

PolicyGaps ==
    {0} \cup Around(3 * ONE_HOUR_IN_SECONDS) \cup Around(ONE_DAY_IN_SECONDS)
        \cup Around(ONE_WEEK_IN_SECONDS) \cup Around(4 * ONE_WEEK_IN_SECONDS)

(* An item is published, or was refreshed, before the clock reading or     *)
(* (clock skew) after it.                                                  *)
BeforeOrAfter(t, ds) == {t - d : d \in ds} \cup {t + d : d \in ds}

(* The clock may advance between the two readings of one evaluation.       *)
MaxClockStep == 1

PolicyVideo == "v1"

PolicyIdle ==
    /\ p_pc = "idle"
    /\ p_entry = PolicyVideo
    /\ p_lookup = NoLookup
    /\ p_published = Epoch
    /\ p_now_published = Epoch
    /\ p_now_updated = Epoch
    /\ p_result = FALSE

PolicyInit ==
    /\ p_pc = "input"
    /\ p_entry = PolicyVideo
    /\ p_now_published = Epoch
    /\ p_now_updated \in Epoch .. (Epoch + MaxClockStep)
    /\ p_published \in BeforeOrAfter(Epoch, PolicyAges)
    /\ p_lookup \in {NoLookup} \cup
                    {[v \in {PolicyVideo} |-> u] : u \in BeforeOrAfter(Epoch, PolicyGaps)}
    /\ p_result = FALSE

PolicyEvaluate ==
    /\ p_pc = "input"
    /\ p_result' = should_update_video(p_lookup, p_entry, p_published,
                                       p_now_published, p_now_updated)
    /\ p_pc' = "done"
    /\ UNCHANGED <<p_entry, p_lookup, p_published, p_now_published, p_now_updated>>

----------------------------------------------------------------------------
(* The item ingestion pipeline: VideoScraper::scrape for one channel.      *)

ChannelId == "ch"

VideoIds == {"v1", "v2"}

PrivacyStatuses == {"public", "private"}

(* Entry.published is text: either an RFC 3339 rendering of an instant or  *)
(* text that does not parse.                                               *)
DateText(instant) == [well_formed |-> TRUE, instant |-> instant]

BadDateText == [well_formed |-> FALSE, instant |-> 0]

(* DateTime::parse_from_rfc3339, then .timestamp().                        *)
parse_from_rfc3339(text) ==
    IF text.well_formed THEN [ok |-> TRUE, timestamp |-> text.instant]
    ELSE [ok |-> FALSE, timestamp |-> 0]

RecentPublished == Epoch - 2 * ONE_HOUR_IN_SECONDS

OlderPublished == Epoch - 10 * ONE_DAY_IN_SECONDS

FeedEntries ==
    { [video_id |-> "v1", published |-> DateText(RecentPublished)],
      [video_id |-> "v2", published |-> DateText(OlderPublished)],
      [video_id |-> "v2", published |-> BadDateText] }

MaxFeedLen == 2

(* A feed lists an item once.                                              *)
Feeds ==
    {f \in UNION {[1..n -> FeedEntries] : n \in 1..MaxFeedLen} :
        \A i, j \in DOMAIN f : f[i].video_id = f[j].video_id => i = j}

(* The document written for an entry whose updatedAt is the publication    *)
(* time instead of the time of the refresh.                                *)
build_video_document_published(channel_id, entry, published, at) ==
    [_id |-> entry.video_id, publishedAt |-> published, updatedAt |-> published,
     channel |-> channel_id]

(* build_video_document: the fields the decisions read (the counters, the  *)
(* tags and the language are carried along and read by nothing here).      *)
build_video_document(channel_id, entry, published, at) ==
    [_id |-> entry.video_id, publishedAt |-> published, updatedAt |-> at,
     channel |-> channel_id]

(* The running maximum that keeps the publication time of the entry       *)
(* handled last.                                                           *)
later_upload_last(published, max_so_far) == published

(* The running maximum of the publication times of the entries a pass      *)
(* builds: if published.timestamp() > max_last_upload_timestamp.           *)
later_upload(published, max_so_far) ==
    IF published > max_so_far THEN published ELSE max_so_far

(* VideoRepository: single-record operations of the document store, keyed  *)
(* by the record's _id.                                                    *)
video_repo_get_updated_lookup(store, channel_id) ==
    [v \in {w \in DOMAIN store : store[w].channel = channel_id} |-> store[v].updatedAt]

video_repo_delete(store, id) == [v \in (DOMAIN store) \ {id} |-> store[v]]

video_repo_upsert(store, id, document) ==
    [v \in (DOMAIN store) \cup {id} |-> IF v = id THEN document ELSE store[v]]

video_repo_count(store, channel_id) ==
    Cardinality({v \in DOMAIN store : store[v].channel = channel_id})

(* The key scrape hands to video_repo.delete for a non-public entry.       *)
scrape_delete_key(channel_id, entry) == channel_id

StoredRecord(v, published, updated) ==
    [_id |-> v, publishedAt |-> published, updatedAt |-> updated, channel |-> ChannelId]

(* The records an earlier run may have left: v1 refreshed two hours ago,   *)
(* v2 a day ago.                                                           *)
InitialRecords ==
    [v \in VideoIds |->
        IF v = "v1"
        THEN StoredRecord(v, RecentPublished, Epoch - 2 * ONE_HOUR_IN_SECONDS)
        ELSE StoredRecord(v, OlderPublished, Epoch - ONE_DAY_IN_SECONDS)]

InitialStores == {[v \in S |-> InitialRecords[v]] : S \in SUBSET VideoIds}

RECURSIVE MaxPublished(_, _)
MaxPublished(store, ids) ==
    IF ids = {} THEN 0
    ELSE LET v == CHOOSE w \in ids : TRUE
         IN  Max(store[v].publishedAt, MaxPublished(store, ids \ {v}))

NoPass == [result |-> "none", start |-> 0, upserted |-> {}, changed |-> FALSE]

MaxPasses == 2

MaxTicks == 3

ScrapeIdle ==
    /\ videos = <<>>
    /\ channel_stats = [videoCount |-> 0, lastUploadTimestamp |-> 0]
    /\ privacy = [v \in VideoIds |-> "public"]
    /\ feed = <<>>
    /\ s_pc = "off"
    /\ s_idx = 0
    /\ updated_lookup = NoLookup
    /\ max_last_upload_timestamp = 0
    /\ s_result = "none"
    /\ s_pass = 0
    /\ s_start = 0
    /\ s_fetched = {}
    /\ s_upserted = {}
    /\ s_nonpublic = {}
    /\ s_prev = NoPass
    /\ s_changed = FALSE
    /\ s_ticks = 0

ScrapeInit ==
    /\ videos \in InitialStores
    /\ channel_stats = [videoCount |-> video_repo_count(videos, ChannelId),
                        lastUploadTimestamp |-> MaxPublished(videos, DOMAIN videos)]
    /\ privacy \in [VideoIds -> PrivacyStatuses]
    /\ feed \in Feeds
    /\ s_pc = "idle"
    /\ s_idx = 0
    /\ updated_lookup = NoLookup
    /\ max_last_upload_timestamp = 0
    /\ s_result = "none"
    /\ s_pass = 0
    /\ s_start = 0
    /\ s_fetched = {}
    /\ s_upserted = {}
    /\ s_nonpublic = {}
    /\ s_prev = NoPass
    /\ s_changed = FALSE
    /\ s_ticks = 0

(* An error that is recorded while the loop over the entries goes on.      *)
ScrapeGoesOn(result) ==
    /\ s_pc' = "entries"
    /\ s_result' = result

(* scrape returns: Ok(()) or the error of the call that failed.            *)
ScrapeReturns(result) ==
    /\ s_pc' = "returned"
    /\ s_result' = result

(* A call of scrape begins: load_and_parse_video_feed, then                *)
(* get_updated_lookup, read once for the whole pass.                       *)
ScrapeBegin ==
    /\ s_pc \in {"idle", "returned"}
    /\ s_pass < MaxPasses
    /\ s_pass' = s_pass + 1
    /\ s_start' = now
    /\ s_prev' = IF s_pc = "idle" THEN NoPass
                 ELSE [result |-> s_result, start |-> s_start,
                       upserted |-> s_upserted, changed |-> s_changed]
    /\ s_changed' = FALSE
    /\ s_fetched' = {}
    /\ s_upserted' = {}
    /\ s_nonpublic' = {}
    /\ s_idx' = 1
    /\ max_last_upload_timestamp' = 0
    /\ \/ /\ updated_lookup' = NoLookup
          /\ ScrapeReturns("err_feed")
       \/ /\ updated_lookup' = NoLookup
          /\ ScrapeReturns("err_lookup")
       \/ /\ updated_lookup' = video_repo_get_updated_lookup(videos, ChannelId)
          /\ s_pc' = "entries"
          /\ s_result' = "none"
    /\ UNCHANGED <<now, videos, channel_stats, privacy, feed, s_ticks>>

ScrapeContinue ==
    /\ s_idx' = s_idx + 1
    /\ UNCHANGED <<s_pc, s_result>>

(* One iteration of the loop over the feed's entries.                      *)
ScrapeEntry ==
    /\ s_pc = "entries"
    /\ s_idx <= Len(feed)
    /\ LET entry == feed[s_idx]
           published == parse_from_rfc3339(entry.published)
       IN  IF ~published.ok
           THEN /\ ScrapeReturns("err_parse")
                /\ UNCHANGED <<videos, s_idx, max_last_upload_timestamp, s_fetched,
                               s_upserted, s_nonpublic>>
           ELSE IF ~should_update_video(updated_lookup, entry.video_id,
                                        published.timestamp, now, now)
           THEN /\ ScrapeContinue
                /\ UNCHANGED <<videos, max_last_upload_timestamp, s_fetched,
                               s_upserted, s_nonpublic>>
           ELSE /\ s_fetched' = s_fetched \cup {entry.video_id}
                /\ \/ \* get_video_details fails
                      /\ ScrapeReturns("err_details")
                      /\ UNCHANGED <<videos, s_idx, max_last_upload_timestamp,
                                     s_upserted, s_nonpublic>>
                   \/ \* the item is not public: delete, then the next entry
                      /\ privacy[entry.video_id] # "public"
                      /\ s_nonpublic' = s_nonpublic \cup {entry.video_id}
                      /\ UNCHANGED <<max_last_upload_timestamp, s_upserted>>
                      /\ \/ /\ videos' = video_repo_delete(
                                             videos, scrape_delete_key(ChannelId, entry))
                            /\ ScrapeContinue
                         \/ /\ ScrapeReturns("err_delete")
                            /\ UNCHANGED <<videos, s_idx>>
                   \/ \* the item is public: build the document and upsert it
                      /\ privacy[entry.video_id] = "public"
                      /\ max_last_upload_timestamp' =
                             later_upload(published.timestamp,
                                          max_last_upload_timestamp)
                      /\ UNCHANGED s_nonpublic
                      /\ \/ /\ videos' = video_repo_upsert(
                                             videos, entry.video_id,
                                             build_video_document(ChannelId, entry,
                                                 published.timestamp, now))
                            /\ s_upserted' = s_upserted \cup {entry.video_id}
                            /\ ScrapeContinue
                         \/ /\ ScrapeReturns("err_upsert")
                            /\ UNCHANGED <<videos, s_idx, s_upserted>>
    /\ UNCHANGED <<now, channel_stats, privacy, feed, updated_lookup, s_pass, s_start,
                   s_prev, s_changed, s_ticks>>

(* update_channel_video_stats, once every entry has been handled, and the  *)
(* return of scrape. The result of set_video_count_last_upload is dropped: *)
(* the store is taken to perform the write.                                *)
ScrapeRollup ==
    /\ s_pc = "entries"
    /\ s_idx > Len(feed)
    /\ \/ \* video_repo.count fails: `?` hands the error to scrape's caller
          /\ ScrapeReturns("err_count")
          /\ UNCHANGED channel_stats
       \/ \* the rollup is written
          /\ channel_stats' = [videoCount |-> video_repo_count(videos, ChannelId),
                               lastUploadTimestamp |-> max_last_upload_timestamp]
          /\ ScrapeReturns("ok")
    /\ UNCHANGED <<now, videos, privacy, feed, s_idx, updated_lookup,
                   max_last_upload_timestamp, s_pass, s_start, s_fetched, s_upserted,
                   s_nonpublic, s_prev, s_changed, s_ticks>>

(* Between two calls of scrape the platform may change an item's privacy.  *)
UpstreamChange ==
    /\ s_pc = "returned"
    /\ s_pass < MaxPasses
    /\ \E v \in VideoIds, status \in PrivacyStatuses :
          /\ privacy[v] # status
          /\ privacy' = [privacy EXCEPT ![v] = status]
    /\ s_changed' = TRUE
    /\ UNCHANGED <<now, videos, channel_stats, feed, s_pc, s_idx, updated_lookup,
                   max_last_upload_timestamp, s_result, s_pass, s_start, s_fetched,
                   s_upserted, s_nonpublic, s_prev, s_ticks>>

(* Time passes between two calls of scrape, an hour at a time (a call is   *)
(* short against the three hours of the shortest freshness window).        *)
ScrapeTick ==
    /\ s_pc = "returned"
    /\ s_pass < MaxPasses
    /\ s_ticks < MaxTicks
    /\ s_ticks' = s_ticks + 1
    /\ now' = now + ONE_HOUR_IN_SECONDS
    /\ UNCHANGED <<videos, channel_stats, privacy, feed, s_pc, s_idx, updated_lookup,
                   max_last_upload_timestamp, s_result, s_pass, s_start, s_fetched,
                   s_upserted, s_nonpublic, s_prev, s_changed>>

----------------------------------------------------------------------------
(* The discovery loop: ChannelDiscoveryCrawler::crawl.                     *)

ONE_DAYS_IN_SECONDS == 86400

(* The tracked channels that uploaded within the last month, and what each *)
(* of them subscribes to.                                                  *)
RecentChannels == {"a", "b"}

ChannelLists == {<<>>, <<"a">>, <<"a", "b">>}

SubscriptionsOf(channel_id) ==
    IF channel_id = "a" THEN <<"x", "y", "m">> ELSE <<"w", "z", "x", "a">>

(* The manually tracked registry, the denylist of non-guitar channels and  *)
(* the classifier's verdict on a candidate's id, title and description.    *)
AdditionalChannels == {"m"}

NonGuitarChannels == {"y"}

WithoutGuitarTerm == {"z"}

has_guitar_term(channel_id) == channel_id \notin WithoutGuitarTerm

is_not_listed_as_non_guitar_channel(channel_id) == channel_id \notin NonGuitarChannels

(* A Result<T, Error>.                                                     *)
Ok(v) == [ok |-> TRUE, value |-> v]

Err == [ok |-> FALSE, value |-> FALSE]

unwrap_or(result, default) == IF result.ok THEN result.value ELSE default

(* is_channel_newly_discovered that asks the tracked registry alone.       *)
is_channel_newly_discovered_one(channel_exists, additional_exists) ==
    ~channel_exists

(* is_channel_newly_discovered that asks the manual registry alone.        *)
is_channel_newly_discovered_additional(channel_exists, additional_exists) ==
    ~additional_exists

(* is_channel_newly_discovered, given what the two exists calls answered.  *)
is_channel_newly_discovered(channel_exists, additional_exists) ==
    ~channel_exists /\ ~additional_exists

(* should_crawl with an hour for the day.                                  *)
should_crawl_hour(read, at) ==
    IF ~read.ok THEN Err
    ELSE Ok(at - read.value >= ONE_HOUR_IN_SECONDS)

(* should_crawl that is content with any time since the last crawl.        *)
should_crawl_any(read, at) ==
    IF ~read.ok THEN Err
    ELSE Ok(at - read.value >= 0)

(* should_crawl that takes a failed read for a crawl that never happened.  *)
should_crawl_never_crawled(read, at) ==
    Ok(at - unwrap_or(read, 0) >= ONE_DAYS_IN_SECONDS)

(* should_crawl: read is the result of get_last_discovery_crawl, at the    *)
(* clock.                                                                  *)
should_crawl(read, at) ==
    IF ~read.ok THEN Err
    ELSE LET seconds_since_last_crawl == at - read.value
         IN  Ok(seconds_since_last_crawl >= ONE_DAYS_IN_SECONDS)

(* The subscriptions of a channel whose fetch failed are those of the      *)
(* channel before it.                                                      *)
subscriptions_or_previous(result, previous) ==
    IF result.ok THEN result.value ELSE previous

(* get_channel_subscriptions(..).await.unwrap_or(vec![]): previous is the  *)
(* list of the channel handled before, which the code does not read.       *)
subscriptions_or_empty(result, previous) == unwrap_or(result, <<>>)

(* The command crawl builds for a qualifying candidate.                    *)
CrawlChannelCommand(sub_channel_id) ==
    [channel_id |-> sub_channel_id, ignore_guitar_terms |-> FALSE]

NoCommand == [channel_id |-> "", ignore_guitar_terms |-> FALSE]

(* The capacity of the command channel.                                    *)
Capacity == 2

NoGate == [checked |-> FALSE, read_ok |-> FALSE, at |-> 0, last |-> 0, due |-> FALSE,
           prev |-> 0]

NoWrite == [written |-> FALSE, at |-> 0, replaced |-> 0]

NoEval == [done |-> FALSE, id |-> "", known |-> FALSE, additional |-> FALSE,
           excluded |-> FALSE, classified |-> FALSE, dispatch |-> FALSE,
           cmd |-> NoCommand]

MaxIterations == 2

MaxCrawlTicks == 1

PassPcs == {"list", "channels", "candidates", "send"}

CrawlIdle ==
    /\ last_discovery_crawl = 0
    /\ tracked = {}
    /\ queue = <<>>
    /\ receiver_open = TRUE
    /\ c_pc = "off"
    /\ channel_ids = <<>>
    /\ c_ci = 0
    /\ subscriptions = <<>>
    /\ c_si = 0
    /\ c_cmd = NoCommand
    /\ c_error = "none"
    /\ c_gate = NoGate
    /\ c_pass = "none"
    /\ c_write = NoWrite
    /\ c_eval = NoEval
    /\ c_subfail = {}
    /\ c_visited = {}
    /\ c_sources = {}
    /\ c_dispatched = <<>>
    /\ c_iter = 0
    /\ c_ticks = 0

(* The last crawl an earlier run recorded lies at or before the clock.     *)
CrawlInit ==
    /\ last_discovery_crawl \in
          {now - 25 * ONE_HOUR_IN_SECONDS, now - ONE_DAYS_IN_SECONDS,
           now - 23 * ONE_HOUR_IN_SECONDS, now}
    /\ tracked = RecentChannels
    /\ queue = <<>>
    /\ receiver_open = TRUE
    /\ c_pc = "gate"
    /\ channel_ids = <<>>
    /\ c_ci = 0
    /\ subscriptions = <<>>
    /\ c_si = 0
    /\ c_cmd = NoCommand
    /\ c_error = "none"
    /\ c_gate = NoGate
    /\ c_pass = "none"
    /\ c_write = NoWrite
    /\ c_eval = NoEval
    /\ c_subfail = {}
    /\ c_visited = {}
    /\ c_sources = {}
    /\ c_dispatched = <<>>
    /\ c_iter = 1
    /\ c_ticks = 0

(* crawl returns the error: the loop is over.                              *)
CrawlTerminates(error) ==
    /\ c_pc' = "terminated"
    /\ c_error' = error
    /\ c_pass' = "aborted"

(* The head of the loop: self.should_crawl().await.unwrap_or(false).       *)
CrawlGate ==
    /\ c_pc = "gate"
    /\ \E read \in {Ok(last_discovery_crawl), Err} :
          LET due == unwrap_or(should_crawl(read, now), FALSE)
          IN  /\ c_gate' = [checked |-> TRUE, read_ok |-> read.ok, at |-> now,
                            last |-> last_discovery_crawl, due |-> due,
                            prev |-> c_gate.prev]
              /\ c_pc' = IF due THEN "list" ELSE "sleep"
    /\ c_pass' = "none"
    /\ c_subfail' = {}
    /\ c_visited' = {}
    /\ c_sources' = {}
    /\ c_dispatched' = <<>>
    /\ UNCHANGED <<now, last_discovery_crawl, tracked, queue, receiver_open,
                   channel_ids, c_ci, subscriptions, c_si, c_cmd, c_error, c_write,
                   c_eval, c_iter, c_ticks>>

(* get_ids_upload_last_month(8000).await?                                  *)
CrawlList ==
    /\ c_pc = "list"
    /\ \/ /\ CrawlTerminates("err_list")
          /\ UNCHANGED <<channel_ids, c_ci>>
       \/ /\ channel_ids' \in ChannelLists
          /\ c_ci' = 1
          /\ c_pc' = "channels"
          /\ c_pass' = "running"
          /\ UNCHANGED c_error
    /\ UNCHANGED <<now, last_discovery_crawl, tracked, queue, receiver_open,
                   subscriptions, c_si, c_cmd, c_gate, c_write, c_eval, c_subfail,
                   c_visited, c_sources, c_dispatched, c_iter, c_ticks>>

(* The next channel of the list: its subscriptions are fetched.            *)
CrawlSubscriptions ==
    /\ c_pc = "channels"
    /\ c_ci <= Len(channel_ids)
    /\ LET channel_id == channel_ids[c_ci]
       IN  /\ c_visited' = c_visited \cup {channel_id}
           /\ \E result \in {Ok(SubscriptionsOf(channel_id)), Err} :
                 /\ subscriptions' = subscriptions_or_empty(result, subscriptions)
                 /\ c_subfail' = IF result.ok THEN c_subfail
                                 ELSE c_subfail \cup {channel_id}
           /\ c_si' = 1
           /\ IF Len(subscriptions') = 0
              THEN c_pc' = "channels" /\ c_ci' = c_ci + 1
              ELSE c_pc' = "candidates" /\ c_ci' = c_ci
    /\ UNCHANGED <<now, last_discovery_crawl, tracked, queue, receiver_open,
                   channel_ids, c_cmd, c_error, c_gate, c_pass, c_write, c_eval,
                   c_sources, c_dispatched, c_iter, c_ticks>>

(* The loop goes on to the next subscription, or to the next channel.      *)
CrawlNextCandidate ==
    IF c_si + 1 > Len(subscriptions)
    THEN c_pc' = "channels" /\ c_ci' = c_ci + 1 /\ c_si' = c_si + 1
    ELSE c_pc' = "candidates" /\ c_ci' = c_ci /\ c_si' = c_si + 1

(* One subscription: the three checks, then the gate.                      *)
CrawlCandidate ==
    /\ c_pc = "candidates"
    /\ c_si <= Len(subscriptions)
    /\ LET sub_channel_id == subscriptions[c_si]
           guitar_terms_result == has_guitar_term(sub_channel_id)
           channel_exists == sub_channel_id \in tracked
           additional_exists == sub_channel_id \in AdditionalChannels
           is_newly_discovered ==
               is_channel_newly_discovered(channel_exists, additional_exists)
           is_not_non_guitar_channel ==
               is_not_listed_as_non_guitar_channel(sub_channel_id)
           qualifies == /\ is_newly_discovered
                        /\ is_not_non_guitar_channel
                        /\ guitar_terms_result
       IN  \/ \* channel_repo.exists fails
              /\ CrawlTerminates("err_exists")
              /\ UNCHANGED <<c_ci, c_si, c_cmd, c_eval>>
           \/ \* additional_channel_repo.exists fails
              /\ CrawlTerminates("err_additional_exists")
              /\ UNCHANGED <<c_ci, c_si, c_cmd, c_eval>>
           \/ /\ c_eval' = [done |-> TRUE, id |-> sub_channel_id,
                            known |-> sub_channel_id \in tracked,
                            additional |-> sub_channel_id \in AdditionalChannels,
                            excluded |-> sub_channel_id \in NonGuitarChannels,
                            classified |-> sub_channel_id \notin WithoutGuitarTerm,
                            dispatch |-> qualifies,
                            cmd |-> IF qualifies THEN CrawlChannelCommand(sub_channel_id)
                                    ELSE NoCommand]
              /\ IF qualifies
                 THEN /\ c_cmd' = CrawlChannelCommand(sub_channel_id)
                      /\ c_pc' = "send"
                      /\ UNCHANGED <<c_ci, c_si>>
                 ELSE /\ CrawlNextCandidate
                      /\ UNCHANGED c_cmd
              /\ UNCHANGED <<c_error, c_pass>>
    /\ UNCHANGED <<now, last_discovery_crawl, tracked, queue, receiver_open,
                   channel_ids, subscriptions, c_gate, c_write, c_subfail, c_visited,
                   c_sources, c_dispatched, c_iter, c_ticks>>

(* A send that does not wait for room in the channel.                      *)
CrawlSendUnbounded ==
    /\ c_pc = "send"
    /\ \/ /\ ~receiver_open
          /\ CrawlTerminates("err_send")
          /\ UNCHANGED <<queue, c_ci, c_si, c_sources, c_dispatched>>
       \/ /\ receiver_open
          /\ queue' = Append(queue, c_cmd)
          /\ c_sources' = c_sources \cup {channel_ids[c_ci]}
          /\ c_dispatched' = Append(c_dispatched, c_cmd.channel_id)
          /\ CrawlNextCandidate
          /\ UNCHANGED <<c_error, c_pass>>
    /\ UNCHANGED <<now, last_discovery_crawl, tracked, receiver_open, channel_ids,
                   subscriptions, c_cmd, c_gate, c_write, c_eval, c_subfail,
                   c_visited, c_iter, c_ticks>>

(* self.sender.send(cmd).await?: fails once the receiver is gone, waits    *)
(* while the channel is full.                                              *)
CrawlSend ==
    /\ c_pc = "send"
    /\ \/ /\ ~receiver_open
          /\ CrawlTerminates("err_send")
          /\ UNCHANGED <<queue, c_ci, c_si, c_sources, c_dispatched>>
       \/ /\ receiver_open
          /\ Len(queue) < Capacity
          /\ queue' = Append(queue, c_cmd)
          /\ c_sources' = c_sources \cup {channel_ids[c_ci]}
          /\ c_dispatched' = Append(c_dispatched, c_cmd.channel_id)
          /\ CrawlNextCandidate
          /\ UNCHANGED <<c_error, c_pass>>
    /\ UNCHANGED <<now, last_discovery_crawl, tracked, receiver_open, channel_ids,
                   subscriptions, c_cmd, c_gate, c_write, c_eval, c_subfail,
                   c_visited, c_iter, c_ticks>>

(* set_last_discovery_crawl placed inside the loop over the channels: the  *)
(* timestamp is written before the list is done.                           *)
CrawlWriteEarly ==
    /\ c_pc = "channels"
    /\ LET crawl_timestamp == now
       IN  /\ last_discovery_crawl' = crawl_timestamp
           /\ c_write' = [written |-> TRUE, at |-> now,
                          replaced |-> last_discovery_crawl]
    /\ c_pass' = "completed"
    /\ c_pc' = "sleep"
    /\ UNCHANGED <<now, tracked, queue, receiver_open, channel_ids, c_ci,
                   subscriptions, c_si, c_cmd, c_error, c_gate, c_eval, c_subfail,
                   c_visited, c_sources, c_dispatched, c_iter, c_ticks>>

(* Every channel of the list is done: set_last_discovery_crawl(now). The   *)
(* call's result is dropped: the store is taken to perform the write.      *)
CrawlWrite ==
    /\ c_pc = "channels"
    /\ c_ci > Len(channel_ids)
    /\ LET crawl_timestamp == now
       IN  /\ last_discovery_crawl' = crawl_timestamp
           /\ c_write' = [written |-> TRUE, at |-> now,
                          replaced |-> last_discovery_crawl]
    /\ c_pass' = "completed"
    /\ c_pc' = "sleep"
    /\ UNCHANGED <<now, tracked, queue, receiver_open, channel_ids, c_ci,
                   subscriptions, c_si, c_cmd, c_error, c_gate, c_eval, c_subfail,
                   c_visited, c_sources, c_dispatched, c_iter, c_ticks>>

(* A sleep that returns a second early.                                    *)
after_sleep_early(at) == at + ONE_DAYS_IN_SECONDS - 1

(* A sleep of an hour.                                                     *)
after_sleep_hour(at) == at + ONE_HOUR_IN_SECONDS

(* The clock when sleep(Duration::from_secs(ONE_DAYS_IN_SECONDS)) returns. *)
after_sleep(at) == at + ONE_DAYS_IN_SECONDS

(* sleep(Duration::from_secs(ONE_DAYS_IN_SECONDS)), then the next          *)
(* iteration; the time of the gate check is kept for the next one.         *)
CrawlSleep ==
    /\ c_pc = "sleep"
    /\ c_iter < MaxIterations
    /\ c_iter' = c_iter + 1
    /\ now' = after_sleep(now)
    /\ c_pc' = "gate"
    /\ c_gate' = [NoGate EXCEPT !.prev = c_gate.at]
    /\ UNCHANGED <<last_discovery_crawl, tracked, queue, receiver_open, channel_ids,
                   c_ci, subscriptions, c_si, c_cmd, c_error, c_pass, c_write,
                   c_eval, c_subfail, c_visited, c_sources, c_dispatched, c_ticks>>

(* Time passes while the loop is at one of its calls, an hour at a time.   *)
CrawlTick ==
    /\ c_pc \in {"gate", "channels"}
    /\ c_ticks < MaxCrawlTicks
    /\ c_ticks' = c_ticks + 1
    /\ now' = now + ONE_HOUR_IN_SECONDS
    /\ UNCHANGED <<last_discovery_crawl, tracked, queue, receiver_open, c_pc,
                   channel_ids, c_ci, subscriptions, c_si, c_cmd, c_error, c_gate,
                   c_pass, c_write, c_eval, c_subfail, c_visited, c_sources,
                   c_dispatched, c_iter>>

(* The worker pool takes the oldest command and may record its channel.    *)
WorkerReceive ==
    /\ c_pc \notin {"off", "terminated"}
    /\ receiver_open
    /\ queue # <<>>
    /\ queue' = Tail(queue)
    /\ tracked' \in {tracked, tracked \cup {Head(queue).channel_id}}
    /\ UNCHANGED <<now, last_discovery_crawl, receiver_open, c_pc, channel_ids, c_ci,
                   subscriptions, c_si, c_cmd, c_error, c_gate, c_pass, c_write,
                   c_eval, c_subfail, c_visited, c_sources,
                   c_dispatched, c_iter, c_ticks>>

(* The receiving end of the command channel is dropped.                    *)
WorkerCloses ==
    /\ c_pc \notin {"off", "terminated"}
    /\ receiver_open
    /\ receiver_open' = FALSE
    /\ UNCHANGED <<now, last_discovery_crawl, tracked, queue, c_pc, channel_ids, c_ci,
                   subscriptions, c_si, c_cmd, c_error, c_gate, c_pass, c_write,
                   c_eval, c_subfail, c_visited, c_sources,
                   c_dispatched, c_iter, c_ticks>>

----------------------------------------------------------------------------
(* The specifications.                                                     *)

InitPolicy == now = Epoch /\ PolicyInit /\ ScrapeIdle /\ CrawlIdle

NextPolicy == PolicyEvaluate /\ UNCHANGED <<now, scrapeVars, crawlVars>>

SpecPolicy == InitPolicy /\ [][NextPolicy]_vars

InitScrape == now = Epoch /\ PolicyIdle /\ ScrapeInit /\ CrawlIdle

NextScrape ==
    \/ ScrapeBegin /\ UNCHANGED <<policyVars, crawlVars>>
    \/ ScrapeEntry /\ UNCHANGED <<policyVars, crawlVars>>
    \/ ScrapeRollup /\ UNCHANGED <<policyVars, crawlVars>>
    \/ UpstreamChange /\ UNCHANGED <<policyVars, crawlVars>>
    \/ ScrapeTick /\ UNCHANGED <<policyVars, crawlVars>>

SpecScrape == InitScrape /\ [][NextScrape]_vars

InitCrawl == now = Epoch /\ PolicyIdle /\ ScrapeIdle /\ CrawlInit

NextCrawl ==
    \/ CrawlGate /\ UNCHANGED <<policyVars, scrapeVars>>
    \/ CrawlList /\ UNCHANGED <<policyVars, scrapeVars>>
    \/ CrawlSubscriptions /\ UNCHANGED <<policyVars, scrapeVars>>
    \/ CrawlCandidate /\ UNCHANGED <<policyVars, scrapeVars>>
    \/ CrawlSend /\ UNCHANGED <<policyVars, scrapeVars>>
    \/ CrawlWrite /\ UNCHANGED <<policyVars, scrapeVars>>
    \/ CrawlSleep /\ UNCHANGED <<policyVars, scrapeVars>>
    \/ CrawlTick /\ UNCHANGED <<policyVars, scrapeVars>>
    \/ WorkerReceive /\ UNCHANGED <<policyVars, scrapeVars>>
    \/ WorkerCloses /\ UNCHANGED <<policyVars, scrapeVars>>

SpecCrawl == InitCrawl /\ [][NextCrawl]_vars

(* The loop is a task of its own: a step of the loop that can be taken is  *)
(* taken, and the sleep returns.                                           *)
CrawlLoopStep ==
    /\ \/ CrawlGate \/ CrawlList \/ CrawlSubscriptions \/ CrawlCandidate
       \/ CrawlSend \/ CrawlWrite \/ CrawlSleep
    /\ UNCHANGED <<policyVars, scrapeVars>>

SpecCrawlFair == SpecCrawl /\ WF_vars(CrawlLoopStep)

----------------------------------------------------------------------------
(* The properties, by claim.                                               *)

THREE_HOURS == 3 * ONE_HOUR_IN_SECONDS

(* The staircase of the freshness policy, tier by tier.                    *)
Threshold(a) ==
    CASE a < ONE_WEEK_IN_SECONDS -> THREE_HOURS
      [] a >= ONE_WEEK_IN_SECONDS /\ a < 4 * ONE_WEEK_IN_SECONDS -> ONE_DAY_IN_SECONDS
      [] a >= 4 * ONE_WEEK_IN_SECONDS /\ a < 24 * ONE_WEEK_IN_SECONDS
            -> ONE_WEEK_IN_SECONDS
      [] OTHER -> 4 * ONE_WEEK_IN_SECONDS

PolicyAge == Abs(p_now_published - p_published)

PolicyGap == Abs(p_now_updated - p_lookup[p_entry])

PolicyTracked == p_entry \in DOMAIN p_lookup

(* C1: an item with no prior updatedAt is always refreshed; a tracked item *)
(* is refreshed if and only if its gap g = |now - updatedAt| is at least   *)
(* threshold(a) for its age a = |now - publishedAt|, the lower bound of    *)
(* each tier inclusive; so no tracked item is refreshed when g < 3 hours.  *)
C1_FreshnessPolicy ==
    p_pc = "done" =>
        /\ ~PolicyTracked => p_result
        /\ PolicyTracked => (p_result <=> PolicyGap >= Threshold(PolicyAge))
        /\ PolicyTracked /\ PolicyGap < THREE_HOURS => ~p_result

(* An item exactly one week old, last refreshed three hours ago, is left   *)
(* alone: it is in the one-day tier.                                       *)
C1_Witness ==
    /\ p_pc = "done"
    /\ PolicyTracked
    /\ PolicyAge = ONE_WEEK_IN_SECONDS
    /\ PolicyGap = THREE_HOURS
    /\ ~p_result

(* C2: when a pass fetches the details of an entry and its status is not   *)
(* public, no record of that item is stored once the pass has returned,    *)
(* and the pass upserted none for it.                                      *)
C2_NonPublicNeverStored ==
    (s_pc = "returned" /\ s_result = "ok") =>
        \A v \in s_nonpublic : v \notin DOMAIN videos /\ v \notin s_upserted

SecondPassInWindow ==
    /\ s_pass >= 2
    /\ s_prev.result = "ok"
    /\ ~s_prev.changed
    /\ now - s_prev.start < THREE_HOURS

(* C6 as stated: a pass that follows a successful pass by less than three  *)
(* hours, nothing having changed upstream, fetches the details of no entry.*)
C6_SecondPassFetchesNothing == SecondPassInWindow => s_fetched = {}

(* C6, amended: such a pass fetches the details of no entry that the pass  *)
(* before it upserted.                                                     *)
C6_SecondPassSkipsUpserted == SecondPassInWindow => s_fetched \cap s_prev.upserted = {}

(* A second pass returned Ok within the window of a first that upserted.   *)
C6_Witness ==
    /\ SecondPassInWindow
    /\ s_prev.upserted # {}
    /\ s_pc = "returned"
    /\ s_result = "ok"
    /\ now > s_prev.start

(* C10: once every entry of the feed has been handled, scrape returns Ok,  *)
(* whatever becomes of the rollup.                                         *)
C10_RollupBestEffort ==
    (s_pc = "returned" /\ s_idx > Len(feed)) => s_result = "ok"

(* C11: when a pass has handled every entry and returned Ok, videoCount is *)
(* the number of records stored for the channel and lastUploadTimestamp is *)
(* the greatest publishedAt among the entries the pass built and upserted, *)
(* or 0 if it upserted none.                                               *)
C11_RollupValues ==
    (s_pc = "returned" /\ s_result = "ok") =>
        /\ channel_stats.videoCount = video_repo_count(videos, ChannelId)
        /\ channel_stats.lastUploadTimestamp = MaxPublished(videos, s_upserted)
        /\ s_upserted = {} => channel_stats.lastUploadTimestamp = 0

(* A pass upserted the recent v1 and then the older v2: the rollup holds   *)
(* two records and the publication time of v1.                             *)
C11_Witness ==
    /\ s_pc = "returned"
    /\ s_result = "ok"
    /\ feed = <<[video_id |-> "v1", published |-> DateText(RecentPublished)], [video_id |-> "v2", published |-> DateText(OlderPublished)]>>
    /\ s_upserted = {"v1", "v2"}
    /\ channel_stats = [videoCount |-> 2, lastUploadTimestamp |-> RecentPublished]

FeedIds(n) == {feed[i].video_id : i \in 1..n}

(* C12: when get_video_details fails for an entry, scrape has returned     *)
(* that error; no entry after the failing one was fetched, upserted or     *)
(* deleted, in that step or later in the pass; the rollup is not written   *)
(* in a pass that does not return Ok; the records upserted for the entries *)
(* before the failing one are stored as the pass built them.               *)
C12_DetailFailureAborts ==
    /\ [](s_result = "err_details" =>
            /\ s_pc = "returned"
            /\ s_idx \in 1..Len(feed)
            /\ feed[s_idx].video_id \in s_fetched
            /\ s_fetched \subseteq FeedIds(s_idx)
            /\ (s_upserted \cup s_nonpublic) \subseteq FeedIds(s_idx - 1)
            /\ \A v \in s_upserted :
                  /\ v \in DOMAIN videos
                  /\ videos[v].updatedAt = s_start)
    /\ [][(s_result' = "err_details" /\ s_pass' = s_pass) =>
              /\ videos' = videos
              /\ channel_stats' = channel_stats
              /\ s_upserted' = s_upserted
              /\ s_nonpublic' = s_nonpublic
              /\ s_idx' = s_idx]_vars
    /\ [][(s_pass' = s_pass /\ channel_stats' # channel_stats) =>
              s_result' = "ok"]_vars

(* The detail fetch failed for the second entry of a feed whose first      *)
(* entry the pass had upserted: the record of the first is stored and the  *)
(* rollup is the one from before the pass.                                 *)
C12_Witness ==
    /\ s_pc = "returned"
    /\ s_result = "err_details"
    /\ s_pass = 1
    /\ s_idx = 2
    /\ s_upserted = {feed[1].video_id}
    /\ videos[feed[1].video_id].updatedAt = now
    /\ channel_stats.videoCount = 0

(* C3: a candidate is dispatched if and only if it is in neither registry, *)
(* not on the denylist and classified in-domain; the command carries the   *)
(* candidate's id and ignoreGuitarTerms = false.                           *)
C3_DiscoveryGate ==
    /\ c_eval.done =>
          /\ c_eval.dispatch <=>
                (~c_eval.known /\ ~c_eval.additional /\ ~c_eval.excluded
                    /\ c_eval.classified)
          /\ c_eval.dispatch =>
                c_eval.cmd = [channel_id |-> c_eval.id, ignore_guitar_terms |-> FALSE]
    /\ c_pc = "send" => c_eval.dispatch /\ c_cmd = c_eval.cmd
    /\ \A i \in 1..Len(queue) : ~queue[i].ignore_guitar_terms

(* The candidate x was dispatched and its command is in the channel.       *)
C3_Witness ==
    /\ c_eval.done
    /\ c_eval.dispatch
    /\ c_eval.id = "x"
    /\ c_pc # "send"
    /\ queue # <<>>
    /\ queue[Len(queue)] = [channel_id |-> "x", ignore_guitar_terms |-> FALSE]

GateElapsed == c_gate.at - c_gate.last

(* C4: a pass is under way only if the gate read a last crawl at least one *)
(* day old; 23 hours old, the loop is at its wait step and no pass ran;    *)
(* 25 hours old, a pass ran, and once it is complete the stored timestamp  *)
(* is the clock at its completion.                                         *)
C4_LoopGate ==
    /\ c_pc \in PassPcs =>
          c_gate.read_ok /\ GateElapsed >= 24 * ONE_HOUR_IN_SECONDS
    /\ (c_gate.checked /\ c_gate.read_ok /\ GateElapsed = 23 * ONE_HOUR_IN_SECONDS) =>
          c_pc = "sleep" /\ c_pass = "none"
    /\ (c_gate.checked /\ c_gate.read_ok /\ GateElapsed = 25 * ONE_HOUR_IN_SECONDS) =>
          c_pc \in PassPcs \/ c_pass \in {"running", "completed", "aborted"}
    /\ (c_gate.checked /\ c_pass = "completed") =>
          /\ c_pc = "sleep"
          /\ last_discovery_crawl = now
          /\ last_discovery_crawl >= c_gate.at

(* A pass that began 25 hours after the last crawl is complete, an hour    *)
(* after its gate check.                                                   *)
C4_Witness ==
    /\ c_gate.checked
    /\ GateElapsed = 25 * ONE_HOUR_IN_SECONDS
    /\ c_pass = "completed"
    /\ last_discovery_crawl > c_gate.at

(* C5: every write of lastDiscoveryCrawlTimestamp stores a value greater   *)
(* than the one it replaces.                                               *)
C5_TimestampAdvances == c_write.written => last_discovery_crawl > c_write.replaced

(* The second pass of a run wrote over the timestamp the first had        *)
(* written, an hour after the start.                                       *)
C5_Witness ==
    /\ c_write.written
    /\ c_iter = 2
    /\ c_gate.checked
    /\ c_pass = "completed"
    /\ c_write.replaced > Epoch

(* C7: the loop is over only after a failed send.                          *)
C7_OnlyDispatchFailureTerminates == c_pc = "terminated" => c_error = "err_send"

Range(f) == {f[i] : i \in DOMAIN f}

(* C8: a channel whose subscription fetch fails has no candidate and no    *)
(* command; the pass goes through the rest of the list, and completes by   *)
(* writing the timestamp.                                                  *)
C8_SubscriptionFailureTolerated ==
    /\ c_subfail \cap c_sources = {}
    /\ c_pc \in {"candidates", "send"} => channel_ids[c_ci] \notin c_subfail
    /\ (c_pc = "terminated" /\ c_error # "err_list") =>
          channel_ids[c_ci] \notin c_subfail
    /\ c_pass = "completed" =>
          /\ c_visited = Range(channel_ids)
          /\ c_write.written
          /\ last_discovery_crawl = c_write.at

(* The fetch failed for a, the pass went on to dispatch for b and is       *)
(* complete.                                                               *)
C8_Witness ==
    /\ c_pass = "completed"
    /\ c_pc = "sleep"
    /\ "a" \in c_subfail
    /\ "b" \in c_sources
    /\ last_discovery_crawl = now

(* C9: a failed fetch of the channel list does not end the loop.           *)
C9_ListFetchFailureTolerated == ~(c_error = "err_list" /\ c_pc = "terminated")

(* C13: lastDiscoveryCrawlTimestamp is written only by the step that       *)
(* completes a running pass, every channel of the list and every candidate *)
(* done, and that step writes it; so once per completed pass. An iteration *)
(* whose gate check found the pass not due, and a pass ended by an error,  *)
(* leave the value the gate check read.                                    *)
C13_WrittenOncePerCompletedPass ==
    /\ [][(last_discovery_crawl' # last_discovery_crawl \/ c_write' # c_write) =>
              /\ c_pass = "running"
              /\ c_pc = "channels"
              /\ c_ci > Len(channel_ids)
              /\ c_pass' = "completed"
              /\ last_discovery_crawl' = now]_vars
    /\ [][(c_pass' = "completed" /\ c_pass # "completed") =>
              /\ c_write' # c_write
              /\ c_write'.at = now
              /\ last_discovery_crawl' = now]_vars
    /\ []((c_gate.checked /\ ~c_gate.due) =>
              c_pass = "none" /\ last_discovery_crawl = c_gate.last)
    /\ [](c_pass = "aborted" =>
              c_pc = "terminated" /\ last_discovery_crawl = c_gate.last)

(* In its second iteration the loop was ended by a failed send, commands   *)
(* of the pass already dispatched: the timestamp is the one the first      *)
(* pass wrote.                                                             *)
C13_Witness ==
    /\ c_iter = 2
    /\ c_pass = "aborted"
    /\ c_error = "err_send"
    /\ c_sources # {}
    /\ c_write.written
    /\ last_discovery_crawl = c_write.at
    /\ last_discovery_crawl < c_gate.at

ONE_DAY == 24 * ONE_HOUR_IN_SECONDS

(* C14: the wait step is left only for the gate check, one day later on    *)
(* the clock, and the gate check is entered only from the wait step; an    *)
(* iteration that does not end the loop comes to the wait step whether its *)
(* gate check skipped the pass or the pass completed; two consecutive gate *)
(* checks are at least one day apart; and the loop at its wait step comes  *)
(* to the gate check again.                                                *)
C14_WaitStep ==
    /\ [][(c_pc = "sleep" /\ c_pc' # "sleep") =>
              c_pc' = "gate" /\ now' = now + ONE_DAY]_vars
    /\ [][(c_pc' = "gate" /\ c_pc # "gate") => c_pc = "sleep"]_vars
    /\ []((c_gate.checked /\ ~c_gate.due) => c_pc = "sleep")
    /\ []((c_gate.checked /\ c_pass = "completed") => c_pc = "sleep")
    /\ []((c_gate.checked /\ c_iter > 1) => c_gate.at - c_gate.prev >= ONE_DAY)
    /\ (c_pc = "sleep" /\ c_iter < MaxIterations) ~> (c_pc = "gate")

(* No pass ran in the first iteration; the gate check of the second is one *)
(* day after the first and finds the pass due.                             *)
C14_Witness ==
    /\ c_iter = 2
    /\ c_gate.checked
    /\ c_gate.due
    /\ ~c_write.written
    /\ c_gate.at - c_gate.prev = ONE_DAY

(* C15: the channel never holds more commands than its capacity; while it  *)
(* is full and open the loop stays at its send and evaluates no candidate; *)
(* once it is closed the send fails and ends the loop, adding nothing; the *)
(* channel changes only by the loop's command joining at the tail or the   *)
(* consumer taking the head, so the consumer receives in dispatch order.   *)
C15_BackPressure ==
    /\ [](Len(queue) <= Capacity)
    /\ [][(c_pc = "send" /\ receiver_open /\ Len(queue) >= Capacity) =>
              /\ c_pc' = "send"
              /\ c_eval' = c_eval
              /\ c_cmd' = c_cmd
              /\ <<c_ci', c_si'>> = <<c_ci, c_si>>
              /\ (queue' = queue \/ queue' = Tail(queue))]_vars
    /\ [][(c_pc = "send" /\ ~receiver_open /\ c_pc' # "send") =>
              /\ c_pc' = "terminated"
              /\ c_error' = "err_send"
              /\ queue' = queue]_vars
    /\ [][queue' # queue =>
              \/ /\ c_pc = "send"
                 /\ receiver_open
                 /\ queue' = Append(queue, c_cmd)
                 /\ c_cmd = c_eval.cmd
              \/ /\ queue # <<>>
                 /\ queue' = Tail(queue)
                 /\ c_eval' = c_eval]_vars

(* The channel is full of the commands for x and w, in that order, and the *)
(* loop waits at the send of its next command.                             *)
C15_Witness ==
    /\ c_pc = "send"
    /\ receiver_open
    /\ Len(queue) = Capacity
    /\ queue[1].channel_id = "x"
    /\ queue[2].channel_id = "w"
    /\ c_cmd.channel_id = "x"

PolicyFuture == p_pc = "done" /\ PolicyTracked /\ p_published > p_now_published

(* C16 as stated: a tracked item published in the future is refreshed if   *)
(* and only if its gap is at least three hours, however far in the future. *)
C16_FutureAlwaysShortest ==
    PolicyFuture => (p_result <=> PolicyGap >= THREE_HOURS)

(* C16, amended: a tracked item published in the future is placed by the   *)
(* distance |now - publishedAt|: less than one week ahead it is refreshed  *)
(* if and only if its gap is at least three hours; one week or more ahead  *)
(* it has the interval of the tier of that distance, as an item that old.  *)
C16_FutureByDistance ==
    PolicyFuture =>
        /\ PolicyAge < ONE_WEEK_IN_SECONDS =>
              (p_result <=> PolicyGap >= THREE_HOURS)
        /\ PolicyAge >= ONE_WEEK_IN_SECONDS =>
              /\ Threshold(PolicyAge) > THREE_HOURS
              /\ (p_result <=> PolicyGap >= Threshold(PolicyAge))

(* An item four weeks ahead of the clock, refreshed a second less than a   *)
(* week ago, is left alone.                                                *)
C16_Witness ==
    /\ PolicyFuture
    /\ p_published - p_now_published = 4 * ONE_WEEK_IN_SECONDS
    /\ PolicyGap = ONE_WEEK_IN_SECONDS - 1
    /\ ~p_result

(* C17: the rollup of a pass that returns Ok after a pass that returned Ok *)
(* does not lower lastUploadTimestamp (the feed is the same in both).      *)
C17_LastUploadNeverDecreases ==
    [][(/\ s_pass >= 2
        /\ s_prev.result = "ok"
        /\ s_pc = "entries"
        /\ s_pc' = "returned"
        /\ s_result' = "ok") =>
          channel_stats'.lastUploadTimestamp >= channel_stats.lastUploadTimestamp]_vars

(* The commands of the pass that carry the id, and the places the id has   *)
(* in the subscription lists the pass has fetched.                         *)
Dispatches(id) == Cardinality({i \in DOMAIN c_dispatched : c_dispatched[i] = id})

Appearances(id) ==
    Cardinality(UNION {{<<ch, i>> : i \in {j \in DOMAIN SubscriptionsOf(ch) :
                                              SubscriptionsOf(ch)[j] = id}} :
                       ch \in c_visited \ c_subfail})

(* C18 as stated: no two commands of one pass carry the same channel id.   *)
C18_NoDuplicateDispatch ==
    \A i, j \in DOMAIN c_dispatched : c_dispatched[i] = c_dispatched[j] => i = j

(* C18, amended: a candidate that is in the tracked registry when it is    *)
(* evaluated is not dispatched, and a pass dispatches an id at most once   *)
(* for each place the id has in the subscription lists it fetched.         *)
C18_DispatchPerAppearance ==
    /\ \A id \in Range(c_dispatched) : Dispatches(id) <= Appearances(id)
    /\ (c_eval.done /\ c_eval.known) => ~c_eval.dispatch
    /\ c_pc = "send" => ~c_eval.known /\ c_cmd.channel_id = c_eval.id

(* x, subscribed to by a and by b and not yet recorded by the worker, was  *)
(* dispatched for each of the two.                                         *)
C18_Witness ==
    /\ c_dispatched = <<"x", "w", "x">>
    /\ "x" \notin tracked
    /\ c_pass = "completed"

(* The gate check read the timestamp that the pass completed last wrote.   *)
GateAfterCompletedPass ==
    /\ c_gate.checked
    /\ c_gate.read_ok
    /\ c_write.written
    /\ c_gate.last = c_write.at

(* C19: a gate check that reads the timestamp written by the pass          *)
(* completed in the iteration before finds at least one day elapsed and    *)
(* the pass due: the iteration runs a pass.                                *)
C19_GatePassesAfterCompletedPass ==
    GateAfterCompletedPass =>
        /\ c_gate.at - c_gate.last >= ONE_DAYS_IN_SECONDS
        /\ c_gate.due
        /\ c_pc \in PassPcs \/ c_pass \in {"running", "completed", "aborted"}

(* The second iteration, one day to the second after the first pass wrote  *)
(* the timestamp, is running its pass.                                     *)
C19_Witness ==
    /\ GateAfterCompletedPass
    /\ c_iter = 2
    /\ c_gate.at - c_gate.last = ONE_DAYS_IN_SECONDS
    /\ c_pass = "running"

(* C20: when the read of the timestamp fails at the gate check, the pass   *)
(* is not due: the loop is at its wait step, no pass ran, no command was   *)
(* dispatched, the timestamp is the stored one and the loop has not ended. *)
C20_FailedReadSkipsPass ==
    (c_gate.checked /\ ~c_gate.read_ok) =>
        /\ ~c_gate.due
        /\ c_pc = "sleep"
        /\ c_pass = "none"
        /\ c_dispatched = <<>>
        /\ last_discovery_crawl = c_gate.last
        /\ c_error = "none"

(* The read failed with the last crawl 25 hours old: the loop waits.       *)
C20_Witness ==
    /\ c_gate.checked
    /\ ~c_gate.read_ok
    /\ c_gate.at - c_gate.last = 25 * ONE_HOUR_IN_SECONDS
    /\ c_pc = "sleep"

====
